---- MODULE Spec2Model ----
(***************************************************************************)
(* Ordinal Pattern Analysis (opa), src/src/cpp_functions.cpp.              *)
(*                                                                         *)
(* A double is modelled as a record [k, num, den]:                         *)
(*   k = "fin"  the exact rational num/den, in lowest terms, den > 0;      *)
(*   k = "nan"  not-a-number;                                              *)
(*   k = "inf"  an infinity whose sign is the sign of num.                 *)
(* Quotients are kept exact: the rounding of the last bit of a double and  *)
(* the sign of zero are not modelled.                                      *)
(***************************************************************************)
EXTENDS Integers, Sequences, FiniteSets, TLC

VARIABLES
    xs,                 \* SpecFn: the vector argument of the exported function called
    h,                  \* the hypothesis argument
    pairing_type,       \* "pairwise" or "adjacent"
    diff_threshold,     \* a double, non-negative
    call,               \* SpecFn: the exported function that has been called
    locals,             \* SpecFn: the locals of row_pcc when it returned
    out_vec,            \* SpecFn: the vector the call returned
    out_list,           \* SpecFn: the list row_pcc returned
    out_dbl,            \* SpecFn: the double scalar_row_pcc returned
    data,               \* the caller's data matrix, a sequence of rows
    nreps,              \* calc_cvalues argument
    shuffle_across_individuals,
    pcc_out,            \* the list returned by pcc()
    pc,                 \* position in pcc() / calc_cvalues()
    interrupt_pending,  \* R's pending-interrupt flag
    dat,                \* calc_cvalues locals, named as in the source
    hypothesis,
    individual_pccs,
    obs_group_pcc,
    rand_group_pccs,
    indiv_rand_pcc_geq_obs_pcc,
    shuffled_dat_cols,
    rand_indiv_pccs,
    i,
    j,
    ret,                \* what calc_cvalues delivered to its caller
    unshuffled,         \* history: the rows scored so far in this repetition are the data's
    hist                \* history: rand_indiv_pccs of every completed repetition, and
                        \* whether its rows were scored as they are in the data

fnvars == <<xs, call, locals, out_vec, out_list, out_dbl>>
argvars == <<h, pairing_type, diff_threshold>>
mcargs == <<data, nreps, shuffle_across_individuals>>
mclocals == <<dat, hypothesis, individual_pccs, obs_group_pcc, rand_group_pccs,
              indiv_rand_pcc_geq_obs_pcc, shuffled_dat_cols, rand_indiv_pccs, i, j>>
mcvars == <<pcc_out, pc, interrupt_pending, ret, unshuffled, hist>>
vars == <<fnvars, argvars, mcargs, mclocals, mcvars>>

----------------------------------------------------------------------------
(* Bounds of the model. *)
MaxLen == 3
MaxReps == 2

----------------------------------------------------------------------------
(* Doubles. *)

Abs(n) == IF n < 0 THEN -n ELSE n

RECURSIVE GCD(_, _)
GCD(a, b) == IF b = 0 THEN a ELSE GCD(b, a % b)

Norm(n, d) ==
    LET g == GCD(Abs(n), d)
    IN  [k |-> "fin", num |-> n \div g, den |-> d \div g]

Fin(n) == [k |-> "fin", num |-> n, den |-> 1]
NaN == [k |-> "nan", num |-> 0, den |-> 1]
PosInf == [k |-> "inf", num |-> 1, den |-> 1]
NegInf == [k |-> "inf", num |-> -1, den |-> 1]

Sgn(n) == IF n > 0 THEN 1 ELSE IF n < 0 THEN -1 ELSE 0
InfOf(s) == IF s > 0 THEN PosInf ELSE NegInf

IsNaN(x) == x.k = "nan"
IsFinite(x) == x.k = "fin"

DNeg(a) == IF a.k = "nan" THEN NaN ELSE [a EXCEPT !.num = -a.num]

DAdd(a, b) ==
    IF a.k = "nan" \/ b.k = "nan" THEN NaN
    ELSE IF a.k = "inf" /\ b.k = "inf" THEN (IF a.num = b.num THEN a ELSE NaN)
    ELSE IF a.k = "inf" THEN a
    ELSE IF b.k = "inf" THEN b
    ELSE Norm(a.num * b.den + b.num * a.den, a.den * b.den)

DSub(a, b) == DAdd(a, DNeg(b))

DMul(a, b) ==
    IF a.k = "nan" \/ b.k = "nan" THEN NaN
    ELSE IF a.k = "inf" \/ b.k = "inf"
         THEN (IF a.num = 0 \/ b.num = 0 THEN NaN ELSE InfOf(Sgn(a.num) * Sgn(b.num)))
    ELSE Norm(a.num * b.num, a.den * b.den)

DDiv(a, b) ==
    IF a.k = "nan" \/ b.k = "nan" THEN NaN
    ELSE IF a.k = "inf" THEN (IF b.k = "inf" THEN NaN
                              ELSE InfOf(a.num * (IF b.num < 0 THEN -1 ELSE 1)))
    ELSE IF b.k = "inf" THEN Fin(0)
    ELSE IF b.num = 0 THEN (IF a.num = 0 THEN NaN ELSE InfOf(a.num))
    ELSE Norm(a.num * b.den * Sgn(b.num), a.den * Abs(b.num))

\* The comparisons of doubles: every comparison with a NaN is false.
DGt(a, b) ==
    /\ a.k # "nan"
    /\ b.k # "nan"
    /\ IF a.k = "inf" /\ b.k = "inf" THEN a.num > b.num
       ELSE IF a.k = "inf" THEN a.num > 0
       ELSE IF b.k = "inf" THEN b.num < 0
       ELSE a.num * b.den > b.num * a.den

DLt(a, b) == DGt(b, a)

DEq(a, b) == a.k # "nan" /\ b.k # "nan" /\ a = b

DGeq(a, b) == DGt(a, b) \/ DEq(a, b)

----------------------------------------------------------------------------
(* Armadillo vector primitives used by the source. *)

RECURSIVE find_finite_from(_, _)
find_finite_from(v, p) ==
    IF p > Len(v) THEN << >>
    ELSE IF IsFinite(v[p]) THEN << p >> \o find_finite_from(v, p + 1)
    ELSE find_finite_from(v, p + 1)

\* arma::find_finite: the indices of the finite elements, ascending
find_finite(v) == find_finite_from(v, 1)

\* a function on 1..n as a sequence value
Tup(f) == SubSeq(f, 1, Len(f))

\* v.elem(idx)
elem(v, idx) == Tup([p \in 1..Len(idx) |-> v[idx[p]]])

\* v.has_nan()
has_nan(v) == \E p \in 1..Len(v) : IsNaN(v[p])

\* arma::diff(v): empty when v has fewer than two elements
arma_diff(v) ==
    IF Len(v) <= 1 THEN << >>
    ELSE Tup([p \in 1..(Len(v) - 1) |-> DSub(v[p + 1], v[p])])

RECURSIVE accu_from(_, _)
accu_from(v, p) == IF p > Len(v) THEN Fin(0) ELSE DAdd(v[p], accu_from(v, p + 1))

\* arma::accu(v)
accu(v) == accu_from(v, 1)

\* arma::mean(v)
mean(v) == DDiv(accu(v), Fin(Len(v)))

\* arma::zeros(n), and the contents of a freshly constructed arma::vec(n)
zeros(n) == Tup([p \in 1..n |-> Fin(0)])

----------------------------------------------------------------------------
(* The exported functions. *)

conform(v, hyp) == elem(hyp, find_finite(v))

sign_with_threshold(v, t) ==
    Tup([p \in 1..Len(v) |->
            IF DGt(v[p], t) THEN Fin(1)
            ELSE IF DLt(v[p], DNeg(t)) THEN Fin(-1)
            ELSE Fin(0)])

\* size_t arithmetic wraps.  The build's word has 64 bits; the model keeps a
\* 15-bit word, which wraps the same way on n - 1 for n = 0, the only input
\* of the model that wraps.
WordMod == 2 ^ 15

triangular(n) == ((n * (n + 1)) % WordMod) \div 2

\* all_diffs with the operands of the difference exchanged
RECURSIVE all_diffs_loop_swapped(_, _, _, _)
all_diffs_loop_swapped(v, a, b, acc) ==
    IF a > Len(v) THEN acc
    ELSE IF b > Len(v) THEN all_diffs_loop_swapped(v, a + 1, a + 2, acc)
    ELSE all_diffs_loop_swapped(v, a, b + 1, Append(acc, DSub(v[a], v[b])))

RECURSIVE all_diffs_loop(_, _, _, _)
all_diffs_loop(v, a, b, acc) ==
    IF a > Len(v) THEN acc
    ELSE IF b > Len(v) THEN all_diffs_loop(v, a + 1, a + 2, acc)
    ELSE all_diffs_loop(v, a, b + 1, Append(acc, DSub(v[b], v[a])))

all_diffs(v) ==
    LET n == Len(v)
        size == triangular((n - 1) % WordMod)
        written == all_diffs_loop(v, 1, 2, << >>)
    IN  Tup([p \in 1..size |-> IF p <= Len(written) THEN written[p] ELSE Fin(0)])

ordering(v, ptype, t) ==
    IF ptype = "pairwise" THEN sign_with_threshold(all_diffs(v), t)
    ELSE sign_with_threshold(arma_diff(v), t)

\* the quotient taken in integers, as if correct_pairs were an integer
pcc_of_integer_division(correct_pairs, n_pairs) ==
    IF n_pairs = 0 THEN NaN ELSE Fin((correct_pairs.num \div n_pairs) * 100)

\* (correct_pairs / n_pairs) * 100, correct_pairs a double, n_pairs a uword
pcc_of(correct_pairs, n_pairs) == DMul(DDiv(correct_pairs, Fin(n_pairs)), Fin(100))

\* the locals of row_pcc (and of scalar_row_pcc, which has the same body)
row_pcc_locals(v, hyp, ptype, t) ==
    LET hypothesis_no_nas == IF has_nan(v) THEN conform(v, hyp) ELSE hyp
        hypothesis_ordering == ordering(hypothesis_no_nas, ptype, Fin(0))
        row_ordering == ordering(elem(v, find_finite(v)), ptype, t)
        match == Tup([p \in 1..Len(row_ordering) |->
                    IF DEq(row_ordering[p], hypothesis_ordering[p]) THEN Fin(1) ELSE Fin(0)])
    IN  [hypothesis_no_nas |-> hypothesis_no_nas,
         hypothesis_ordering |-> hypothesis_ordering,
         row_ordering |-> row_ordering,
         match |-> match]

row_pcc(v, hyp, ptype, t) ==
    LET l == row_pcc_locals(v, hyp, ptype, t)
        n_pairs == Len(l.match)
        correct_pairs == accu(l.match)
    IN  [kind |-> "value",
         n_pairs |-> n_pairs,
         correct_pairs |-> correct_pairs,
         pcc |-> pcc_of(correct_pairs, n_pairs)]

scalar_row_pcc(v, hyp, ptype, t) ==
    LET l == row_pcc_locals(v, hyp, ptype, t)
        n_pairs == Len(l.match)
        correct_pairs == accu(l.match)
    IN  pcc_of(correct_pairs, n_pairs)

\* correct_pairs / total_pairs taken in integers, as without the cast to double
group_pcc_of_integer_division(correct_pairs, total_pairs) ==
    IF total_pairs = 0 THEN NaN ELSE Fin((correct_pairs \div total_pairs) * 100)

\* (correct_pairs / (double)total_pairs) * 100, both size_t
group_pcc_of(correct_pairs, total_pairs) ==
    DMul(DDiv(Fin(correct_pairs), Fin(total_pairs)), Fin(100))

\* the loop of pcc() from row r on; acc holds individual_pccs, total_pairs
\* and correct_pairs
RECURSIVE pcc_loop(_, _, _, _, _, _)
pcc_loop(d, hyp, ptype, t, r, acc) ==
    IF r > Len(d) THEN acc
    ELSE LET result == row_pcc(d[r], hyp, ptype, t)
         IN  pcc_loop(d, hyp, ptype, t, r + 1,
                 [individual_pccs |-> Append(acc.individual_pccs, result.pcc),
                  total_pairs |-> acc.total_pairs + result.n_pairs,
                  correct_pairs |-> acc.correct_pairs + result.correct_pairs.num])

pcc(d, hyp, ptype, t) ==
    LET acc == pcc_loop(d, hyp, ptype, t, 1,
                   [individual_pccs |-> << >>, total_pairs |-> 0, correct_pairs |-> 0])
    IN  [group_pcc |-> group_pcc_of(acc.correct_pairs, acc.total_pairs),
         individual_pccs |-> acc.individual_pccs,
         total_pairs |-> acc.total_pairs,
         correct_pairs |-> acc.correct_pairs,
         data |-> d,
         hypothesis |-> hyp,
         pairing_type |-> ptype,
         diff_threshold |-> t]

\* the permutations of 1..n
Perms(n) == {f \in [1..n -> 1..n] : \A a, b \in 1..n : f[a] = f[b] => a = b}

\* arma::shuffle(v): v in any order
shuffle(v) == {Tup([p \in 1..Len(v) |-> v[f[p]]]) : f \in Perms(Len(v))}

\* shuffle_each_column(x): every column of x in any order
shuffle_each_column(x) ==
    LET num_rows == Len(x)
        num_cols == Len(x[1])
    IN  {Tup([r \in 1..num_rows |-> Tup([c \in 1..num_cols |-> x[f[c][r]][c]])]) :
            f \in [1..num_cols -> Perms(num_rows)]}

\* the caller's matrix after shuffle_each_column(x) returned s, were x taken
\* by reference
argument_after_shuffle_by_reference(x, s) == s

\* the caller's matrix after shuffle_each_column(x) returned s: x is taken by
\* value, the caller's matrix is not touched
argument_after_shuffle(x, s) == x

\* the exceedance test with ties left out
exceeds_strictly(rand_pcc, observed_pcc) == DGt(rand_pcc, observed_pcc)

\* rand_indiv_pccs(j) >= individual_pccs[j]
exceeds(rand_pcc, observed_pcc) == DGeq(rand_pcc, observed_pcc)

RECURSIVE count_geq_from(_, _, _)
count_geq_from(v, x, p) ==
    IF p > Len(v) THEN 0
    ELSE (IF DGeq(v[p], x) THEN 1 ELSE 0) + count_geq_from(v, x, p + 1)

\* arma::accu(v >= x)
accu_geq(v, x) == count_geq_from(v, x, 1)

\* the list calc_cvalues returns after the loop
cvalues_list(counts, group_pccs, observed_group_pcc, n) ==
    [kind |-> "value",
     group_cval |-> DDiv(Fin(accu_geq(group_pccs, observed_group_pcc)), Fin(n)),
     individual_cvals |-> Tup([p \in 1..Len(counts) |-> DDiv(counts[p], Fin(n))]),
     rand_pccs |-> group_pccs]

\* an interrupt that handed back the repetitions completed so far
interrupt_with_partial_results(group_pccs, done) ==
    [kind |-> "interrupt", group_cval |-> NaN, individual_cvals |-> << >>,
     rand_pccs |-> SubSeq(group_pccs, 1, done)]

\* Rcpp::checkUserInterrupt() with an interrupt pending throws: calc_cvalues
\* is unwound and the caller gets R's interrupt condition and no list
interrupt_outcome(group_pccs, done) ==
    [kind |-> "interrupt", group_cval |-> NaN, individual_cvals |-> << >>,
     rand_pccs |-> << >>]

----------------------------------------------------------------------------
(* SpecFn: one call of an exported vector function on bounded arguments. *)

\* the entries of a vector argument, of a hypothesis, and the thresholds
XVals == {Fin(-1), Fin(0), Fin(1), Fin(2), Fin(3), NaN, PosInf}
HVals == {Fin(1), Fin(2)}
Thresholds == {Fin(0), Fin(1)}
PairingTypes == {"pairwise", "adjacent"}

NoList == [kind |-> "none", group_cval |-> NaN, individual_cvals |-> << >>,
           rand_pccs |-> << >>]

NoLocals == [hypothesis_no_nas |-> << >>, hypothesis_ordering |-> << >>,
             row_ordering |-> << >>, match |-> << >>]
NoPccRecord == [kind |-> "none", n_pairs |-> 0, correct_pairs |-> Fin(0), pcc |-> NaN]

NoGroupResult == [group_pcc |-> NaN, individual_pccs |-> << >>, total_pairs |-> 0,
                  correct_pairs |-> 0, data |-> << >>, hypothesis |-> << >>,
                  pairing_type |-> "", diff_threshold |-> Fin(0)]

InitFn ==
    /\ \E n \in 1..MaxLen : xs \in [1..n -> XVals] /\ h \in [1..n -> HVals]
    /\ pairing_type \in PairingTypes
    /\ diff_threshold \in Thresholds
    /\ call = "none"
    /\ locals = NoLocals
    /\ out_vec = << >>
    /\ out_list = NoPccRecord
    /\ out_dbl = NaN
    /\ data = << >>
    /\ nreps = 0
    /\ shuffle_across_individuals = FALSE
    /\ pcc_out = NoGroupResult
    /\ pc = "idle"
    /\ interrupt_pending = FALSE
    /\ dat = << >>
    /\ hypothesis = << >>
    /\ individual_pccs = << >>
    /\ obs_group_pcc = NaN
    /\ rand_group_pccs = << >>
    /\ indiv_rand_pcc_geq_obs_pcc = << >>
    /\ shuffled_dat_cols = << >>
    /\ rand_indiv_pccs = << >>
    /\ i = 0
    /\ j = 0
    /\ ret = NoList
    /\ unshuffled = TRUE
    /\ hist = << >>

fnframe == <<xs, argvars, mcargs, mclocals, mcvars>>

CallSignWithThreshold ==
    /\ call = "none"
    /\ call' = "sign_with_threshold"
    /\ out_vec' = sign_with_threshold(xs, diff_threshold)
    /\ UNCHANGED <<out_list, out_dbl, locals>>
    /\ UNCHANGED fnframe

CallAllDiffs ==
    /\ call = "none"
    /\ call' = "all_diffs"
    /\ out_vec' = all_diffs(xs)
    /\ UNCHANGED <<out_list, out_dbl, locals>>
    /\ UNCHANGED fnframe

CallOrdering ==
    /\ call = "none"
    /\ call' = "ordering"
    /\ out_vec' = ordering(xs, pairing_type, diff_threshold)
    /\ UNCHANGED <<out_list, out_dbl, locals>>
    /\ UNCHANGED fnframe

CallConform ==
    /\ call = "none"
    /\ call' = "conform"
    /\ out_vec' = conform(xs, h)
    /\ UNCHANGED <<out_list, out_dbl, locals>>
    /\ UNCHANGED fnframe

CallRowPcc ==
    /\ call = "none"
    /\ call' = "row_pcc"
    /\ out_list' = row_pcc(xs, h, pairing_type, diff_threshold)
    /\ locals' = row_pcc_locals(xs, h, pairing_type, diff_threshold)
    /\ UNCHANGED <<out_vec, out_dbl>>
    /\ UNCHANGED fnframe

CallScalarRowPcc ==
    /\ call = "none"
    /\ call' = "scalar_row_pcc"
    /\ out_dbl' = scalar_row_pcc(xs, h, pairing_type, diff_threshold)
    /\ locals' = row_pcc_locals(xs, h, pairing_type, diff_threshold)
    /\ UNCHANGED <<out_vec, out_list>>
    /\ UNCHANGED fnframe

NextFn ==
    \/ CallSignWithThreshold
    \/ CallAllDiffs
    \/ CallOrdering
    \/ CallConform
    \/ CallRowPcc
    \/ CallScalarRowPcc

SpecFn == InitFn /\ [][NextFn]_vars

----------------------------------------------------------------------------
(* Properties of the vector functions, checked under SpecFn. *)

Vec(ints) == Tup([p \in 1..Len(ints) |-> Fin(ints[p])])

\* the rule of the Ordinal Encoder for one element; MISSING is the
\* not-a-number code
MISSING == NaN

EncodeRule(x, t) ==
    IF IsNaN(x) THEN MISSING
    ELSE IF DGt(x, t) THEN Fin(1)
    ELSE IF DLt(x, DNeg(t)) THEN Fin(-1)
    ELSE Fin(0)

\* the classical sign function (R's sign), which maps NaN to NaN
ClassicalSign(x) == IF IsNaN(x) THEN NaN ELSE Fin(Sgn(x.num))

\* C1: row_pcc on a row with fewer than two values left after the removal of
\* the missing ones (so n_pairs = 0) reports the failure EmptyPairSet and
\* returns no pcc computed by a division by zero.
C1_EmptyPairSetReported ==
    (call = "row_pcc" /\ Len(find_finite(xs)) < 2)
        => (out_list.kind = "EmptyPairSet" /\ out_list.pcc.k # "nan")

\* C7: sign_with_threshold returns one code per element, in order: MISSING
\* for a not-a-number element, else +1 above the threshold, -1 below minus
\* the threshold, else 0; at threshold 0 it is the classical sign function.
C7_EncodeRule ==
    call = "sign_with_threshold"
        => /\ Len(out_vec) = Len(xs)
           /\ \A p \in 1..Len(xs) :
                /\ out_vec[p] = EncodeRule(xs[p], diff_threshold)
                /\ diff_threshold = Fin(0) => out_vec[p] = ClassicalSign(xs[p])

\* C9: in row_pcc, for every row as long as the hypothesis, with finite,
\* not-a-number or infinite entries, the hypothesis ordering and the observed
\* ordering have the same length.
C9_OrderingsEqualLength ==
    (call = "row_pcc" /\ Len(xs) = Len(h))
        => Len(locals.hypothesis_ordering) = Len(locals.row_ordering)

\* C2: for a row and a hypothesis of the same length N >= 2, the row with at
\* least two defined (finite) values, either pairing type and any threshold
\* >= 0, row_pcc returns n_pairs = the length of the observed ordering,
\* correct_pairs = the number of positions where the observed and the
\* hypothesis ordering agree, 0 <= correct_pairs <= n_pairs,
\* pcc = 100 * correct_pairs / n_pairs, and 0 <= pcc <= 100.
C2_PccRecord ==
    (call = "row_pcc" /\ Len(xs) = Len(h) /\ Len(xs) >= 2 /\ Len(find_finite(xs)) >= 2)
        => LET obs == locals.row_ordering
               hyp == locals.hypothesis_ordering
               agree == Cardinality({p \in 1..Len(obs) : obs[p] = hyp[p]})
               r == out_list
           IN  /\ r.kind = "value"
               /\ r.n_pairs = Len(obs)
               /\ r.n_pairs > 0
               /\ r.correct_pairs = Fin(agree)
               /\ agree <= r.n_pairs
               /\ r.pcc.k = "fin"
               /\ r.pcc.num * r.n_pairs = 100 * agree * r.pcc.den
               /\ r.pcc.num >= 0
               /\ r.pcc.num <= 100 * r.pcc.den

\* a row of three values, one of its three pairs right
C2_Witness ==
    /\ call = "row_pcc"
    /\ Len(xs) = 3
    /\ Len(find_finite(xs)) = 3
    /\ out_list.n_pairs = 3
    /\ out_list.correct_pairs = Fin(1)
    /\ out_list.pcc = Norm(100, 3)

\* position of the pair (a, b), a < b, of an n-vector in the order
\* (1,2), (1,3), ..., (1,n), (2,3), ...
PairPosition(a, b, n) == (a - 1) * n - ((a * (a - 1)) \div 2) + (b - a)

\* the encoder applied to a single difference
EncodeOne(d, t) == sign_with_threshold(<< d >>, t)[1]

\* C6: for xs of length N >= 1 and threshold t >= 0, the adjacent ordering
\* has length N-1 and its k-th code encodes xs[k+1]-xs[k]; the pairwise
\* ordering has length N(N-1)/2 and encodes xs[j]-xs[i] over the pairs i<j in
\* the order (0,1),(0,2),...,(0,N-1),(1,2),...; [1,2,3] pairwise at
\* threshold 0 gives [1,1,1].
C6_Ordering ==
    call = "ordering"
        => LET n == Len(xs)
           IN  /\ pairing_type = "adjacent"
                    => /\ Len(out_vec) = n - 1
                       /\ \A p \in 1..(n - 1) :
                            out_vec[p] = EncodeOne(DSub(xs[p + 1], xs[p]), diff_threshold)
               /\ pairing_type = "pairwise"
                    => /\ Len(out_vec) = (n * (n - 1)) \div 2
                       /\ \A a \in 1..n : \A b \in (a + 1)..n :
                            out_vec[PairPosition(a, b, n)]
                                = EncodeOne(DSub(xs[b], xs[a]), diff_threshold)
               /\ (xs = Vec(<<1, 2, 3>>) /\ pairing_type = "pairwise"
                        /\ diff_threshold = Fin(0))
                    => out_vec = Vec(<<1, 1, 1>>)

C6_Witness ==
    /\ call = "ordering"
    /\ xs = Vec(<<1, 2, 3>>)
    /\ pairing_type = "pairwise"
    /\ diff_threshold = Fin(0)
    /\ out_vec = Vec(<<1, 1, 1>>)

----------------------------------------------------------------------------
(* Spec: pcc() on a data matrix, then calc_cvalues() on its result, with R's *)
(* user interrupt arriving at any moment of the Monte-Carlo loop.            *)

Row123 == << Fin(1), Fin(2), Fin(3) >>
Row321 == << Fin(3), Fin(2), Fin(1) >>
Row2N1 == << Fin(2), NaN, Fin(1) >>
Row112 == << Fin(1), Fin(1), Fin(2) >>
RowN1N == << NaN, Fin(1), NaN >>

\* the data matrices of the model: without and with missing values, rows
\* with different numbers of missing values, a row with a single value left
Datasets ==
    { << Row123 >>,
      << Row123, Row321 >>,
      << Row123, Row2N1 >>,
      << Row2N1, Row112 >>,
      << Row112, RowN1N >> }

Hypotheses == { << Fin(1), Fin(2), Fin(3) >> }

Init ==
    /\ data \in Datasets
    /\ h \in Hypotheses
    /\ pairing_type \in PairingTypes
    /\ diff_threshold \in Thresholds
    /\ nreps \in 1..MaxReps
    /\ shuffle_across_individuals \in BOOLEAN
    /\ xs = << >>
    /\ call = "none"
    /\ locals = NoLocals
    /\ out_vec = << >>
    /\ out_list = NoPccRecord
    /\ out_dbl = NaN
    /\ pcc_out = NoGroupResult
    /\ pc = "start"
    /\ interrupt_pending = FALSE
    /\ dat = << >>
    /\ hypothesis = << >>
    /\ individual_pccs = << >>
    /\ obs_group_pcc = NaN
    /\ rand_group_pccs = << >>
    /\ indiv_rand_pcc_geq_obs_pcc = << >>
    /\ shuffled_dat_cols = << >>
    /\ rand_indiv_pccs = << >>
    /\ i = 0
    /\ j = 0
    /\ ret = NoList
    /\ unshuffled = TRUE
    /\ hist = << >>

\* pcc(dat, h, pairing_type, diff_threshold)
Pcc ==
    /\ pc = "start"
    /\ pcc_out' = pcc(data, h, pairing_type, diff_threshold)
    /\ pc' = "scored"
    /\ UNCHANGED <<fnvars, argvars, mcargs, mclocals, interrupt_pending, ret,
                   unshuffled, hist>>

\* calc_cvalues(pcc_out, nreps, shuffle_across_individuals) up to its loop.
\* A vector constructed with a size holds zeros.
CalcCvaluesEnter ==
    /\ pc = "scored"
    /\ dat' = pcc_out.data
    /\ hypothesis' = pcc_out.hypothesis
    /\ individual_pccs' = pcc_out.individual_pccs
    /\ obs_group_pcc' = pcc_out.group_pcc
    /\ rand_group_pccs' = zeros(nreps)
    /\ indiv_rand_pcc_geq_obs_pcc' = zeros(Len(pcc_out.data))
    /\ shuffled_dat_cols' = [r \in 1..Len(pcc_out.data) |-> zeros(Len(pcc_out.data[1]))]
    /\ rand_indiv_pccs' = << >>
    /\ i' = 0
    /\ j' = 0
    /\ pc' = "rep_top"
    /\ UNCHANGED <<fnvars, argvars, mcargs, pcc_out, interrupt_pending, ret,
                   unshuffled, hist>>

\* the user interrupts R while calc_cvalues runs
UserInterrupt ==
    /\ pc \in {"rep_top", "rows"}
    /\ ~interrupt_pending
    /\ interrupt_pending' = TRUE
    /\ UNCHANGED <<fnvars, argvars, mcargs, mclocals, pcc_out, pc, ret, unshuffled, hist>>

\* top of a repetition, no interrupt pending: the column shuffle
RepetitionBegin ==
    /\ pc = "rep_top"
    /\ i < nreps
    /\ ~interrupt_pending
    /\ rand_indiv_pccs' = zeros(Len(dat))
    /\ IF shuffle_across_individuals
       THEN \E s \in shuffle_each_column(dat) :
                /\ shuffled_dat_cols' = s
                /\ dat' = argument_after_shuffle(dat, s)
       ELSE UNCHANGED <<shuffled_dat_cols, dat>>
    /\ j' = 0
    /\ unshuffled' = TRUE
    /\ pc' = "rows"
    /\ UNCHANGED <<fnvars, argvars, mcargs, hypothesis, individual_pccs, obs_group_pcc,
                   rand_group_pccs, indiv_rand_pcc_geq_obs_pcc, i, pcc_out,
                   interrupt_pending, ret, hist>>

\* top of a repetition, interrupt pending: checkUserInterrupt throws
Interrupted ==
    /\ pc = "rep_top"
    /\ i < nreps
    /\ interrupt_pending
    /\ interrupt_pending' = FALSE
    /\ ret' = interrupt_outcome(rand_group_pccs, i)
    /\ pc' = "interrupted"
    /\ UNCHANGED <<fnvars, argvars, mcargs, mclocals, pcc_out, unshuffled, hist>>

\* the body of the loop over the rows, for row j
ScoreRow ==
    /\ pc = "rows"
    /\ j < Len(dat)
    /\ LET source == IF shuffle_across_individuals THEN shuffled_dat_cols[j + 1]
                     ELSE dat[j + 1]
       IN  \E row \in shuffle(source) :
             LET rand_indiv_pcc == scalar_row_pcc(row, hypothesis, pcc_out.pairing_type,
                                                  pcc_out.diff_threshold)
             IN  /\ rand_indiv_pccs' = [rand_indiv_pccs EXCEPT ![j + 1] = rand_indiv_pcc]
                 /\ indiv_rand_pcc_geq_obs_pcc' =
                        IF exceeds(rand_indiv_pcc, individual_pccs[j + 1])
                        THEN [indiv_rand_pcc_geq_obs_pcc EXCEPT
                                 ![j + 1] = DAdd(@, Fin(1))]
                        ELSE indiv_rand_pcc_geq_obs_pcc
                 /\ unshuffled' = (unshuffled /\ row = data[j + 1])
    /\ j' = j + 1
    /\ UNCHANGED <<fnvars, argvars, mcargs, dat, hypothesis, individual_pccs,
                   obs_group_pcc, rand_group_pccs, shuffled_dat_cols, i, pcc_out, pc,
                   interrupt_pending, ret, hist>>

\* after the last row: the group statistic of the repetition
RepetitionEnd ==
    /\ pc = "rows"
    /\ j = Len(dat)
    /\ rand_group_pccs' = [rand_group_pccs EXCEPT ![i + 1] = mean(rand_indiv_pccs)]
    /\ hist' = Append(hist, [pccs |-> rand_indiv_pccs, unshuffled |-> unshuffled])
    /\ i' = i + 1
    /\ pc' = "rep_top"
    /\ UNCHANGED <<fnvars, argvars, mcargs, dat, hypothesis, individual_pccs,
                   obs_group_pcc, indiv_rand_pcc_geq_obs_pcc, shuffled_dat_cols,
                   rand_indiv_pccs, j, pcc_out, interrupt_pending, ret, unshuffled>>

\* after the loop: the c-values
CalcCvaluesReturn ==
    /\ pc = "rep_top"
    /\ i = nreps
    /\ ret' = cvalues_list(indiv_rand_pcc_geq_obs_pcc, rand_group_pccs, obs_group_pcc, nreps)
    /\ pc' = "done"
    /\ UNCHANGED <<fnvars, argvars, mcargs, mclocals, pcc_out, interrupt_pending,
                   unshuffled, hist>>

Next ==
    \/ Pcc
    \/ CalcCvaluesEnter
    \/ UserInterrupt
    \/ RepetitionBegin
    \/ Interrupted
    \/ ScoreRow
    \/ RepetitionEnd
    \/ CalcCvaluesReturn

Spec == Init /\ [][Next]_vars

----------------------------------------------------------------------------
(* Properties of pcc() and calc_cvalues(), checked under Spec. *)

RECURSIVE SumTo(_, _)
SumTo(f, n) == IF n = 0 THEN 0 ELSE f[n] + SumTo(f, n - 1)

RowResult(r) == row_pcc(data[r], h, pairing_type, diff_threshold)

\* C3: pcc() returns total_pairs = the sum of the rows' n_pairs and
\* correct_pairs = the sum of the rows' correct_pairs (a row without pairs
\* adds nothing), group_pcc = 100 * correct_pairs / total_pairs, and
\* individual_pccs[r] = the pcc of row_pcc on row r, in row order;
\* [[1,2,3],[3,2,1]] against [1,2,3], pairwise, threshold 0, gives the
\* individual PCCs 100 and 0 and the group PCC 50.
C3_GroupPcc ==
    pc = "scored"
        => LET n == Len(data)
               pairs == [r \in 1..n |-> RowResult(r).n_pairs]
               correct == [r \in 1..n |-> RowResult(r).correct_pairs.num]
               g == pcc_out.group_pcc
           IN  /\ pcc_out.total_pairs = SumTo(pairs, n)
               /\ pcc_out.correct_pairs = SumTo(correct, n)
               /\ pcc_out.total_pairs > 0
                    => /\ g.k = "fin"
                       /\ g.num * pcc_out.total_pairs = 100 * pcc_out.correct_pairs * g.den
               /\ pcc_out.total_pairs = 0 => g.k = "nan"
               /\ Len(pcc_out.individual_pccs) = n
               /\ \A r \in 1..n : pcc_out.individual_pccs[r] = RowResult(r).pcc
               /\ (data = << Row123, Row321 >> /\ h = Row123 /\ pairing_type = "pairwise"
                        /\ diff_threshold = Fin(0))
                    => /\ pcc_out.individual_pccs = << Fin(100), Fin(0) >>
                       /\ g = Fin(50)

C3_Witness ==
    /\ pc = "scored"
    /\ data = << Row123, Row321 >>
    /\ h = Row123
    /\ pairing_type = "pairwise"
    /\ diff_threshold = Fin(0)
    /\ pcc_out.total_pairs = 6
    /\ pcc_out.correct_pairs = 3
    /\ pcc_out.group_pcc = Fin(50)

\* the repetitions of hist in which row r's randomized PCC is >= its observed PCC
RowExceedances(r) ==
    {t \in 1..Len(hist) : DGeq(hist[t].pccs[r], pcc_out.individual_pccs[r])}

\* the repetitions of hist whose group randomized PCC is >= the observed group PCC
GroupExceedances ==
    {t \in 1..Len(hist) : DGeq(mean(hist[t].pccs), pcc_out.group_pcc)}

IsProportion(x, count, n) ==
    /\ x.k = "fin"
    /\ x.num * n = count * x.den
    /\ x.num >= 0
    /\ x.num <= x.den

\* C4: after a run of nreps >= 1 repetitions that was not interrupted,
\* individual_cvals[r] = (the number of repetitions in which row r's
\* randomized PCC >= its observed PCC, ties counted) / nreps, group_cval =
\* (the number of repetitions whose group randomized PCC >= the observed group
\* PCC) / nreps, both are in [0,1], and rand_pccs has nreps entries, the
\* repetitions' group PCCs in repetition order.
C4_Cvalues ==
    pc = "done"
        => /\ ret.kind = "value"
           /\ Len(hist) = nreps
           /\ Len(ret.individual_cvals) = Len(data)
           /\ \A r \in 1..Len(data) :
                IsProportion(ret.individual_cvals[r], Cardinality(RowExceedances(r)), nreps)
           /\ IsProportion(ret.group_cval, Cardinality(GroupExceedances), nreps)
           /\ Len(ret.rand_pccs) = nreps
           /\ \A t \in 1..nreps : ret.rand_pccs[t] = mean(hist[t].pccs)

\* two repetitions, a row that tied with its observed PCC in one of them only
C4_Witness ==
    /\ pc = "done"
    /\ nreps = 2
    /\ \E r \in 1..Len(data) :
         /\ ret.individual_cvals[r] = Norm(1, 2)
         /\ \E t \in 1..2 : hist[t].pccs[r] = pcc_out.individual_pccs[r]
         /\ \E t \in 1..2 : DLt(hist[t].pccs[r], pcc_out.individual_pccs[r])

\* C5 as stated: an interrupt pending at the top of a repetition, after k
\* completed repetitions, ends the operation with a distinct outcome that
\* carries the partial results of the k repetitions, tagged with k.
C5_CancelledWithPartialResults ==
    [][(pc = "rep_top" /\ i < nreps /\ interrupt_pending)
          => /\ pc' = "interrupted"
             /\ ret'.kind = "interrupt"
             /\ Len(ret'.rand_pccs) = i
             /\ \A t \in 1..i : ret'.rand_pccs[t] = mean(hist[t].pccs)]_vars

\* C5, amended: an interrupt pending at the top of a repetition, after k
\* completed repetitions, ends the operation with a distinct outcome (R's
\* interrupt condition, not a returned list) that carries none of the
\* results of the k repetitions and no count.
C5_InterruptedWithoutResults ==
    [][(pc = "rep_top" /\ i < nreps /\ interrupt_pending)
          => /\ pc' = "interrupted"
             /\ ret'.kind = "interrupt"
             /\ ret'.rand_pccs = << >>
             /\ ret'.individual_cvals = << >>
             /\ ret'.group_cval = NaN]_vars

C5_Witness ==
    /\ pc = "interrupted"
    /\ Len(hist) >= 1
    /\ Len(hist) < nreps
    /\ ret.kind = "interrupt"

\* C8: the data matrix and the hypothesis held in the result of pcc() are
\* not changed by calc_cvalues: at every repetition, with or without the
\* column shuffle, they and the copies the loop shuffles are as at the start
\* of the call.
C8_InputsUnchanged ==
    pc \in {"rep_top", "rows", "done", "interrupted"}
        => /\ pcc_out.data = data
           /\ pcc_out.hypothesis = h
           /\ dat = data
           /\ hypothesis = h

\* a second repetition with the column shuffle, after a first one that
\* moved values between the rows
C8_Witness ==
    /\ pc = "rows"
    /\ shuffle_across_individuals
    /\ i = 1
    /\ shuffled_dat_cols # data
    /\ dat = data

\* C10: the group statistic of a repetition and the observed one are the
\* same function of the data: a repetition whose shuffles left every row as
\* in the data has a group randomized PCC equal to the observed group_pcc,
\* also when the rows have different numbers of missing values.  Stated for
\* data in which every row has a pair, so that every PCC is a number.
C10_SameGroupStatistic ==
    (\A r \in 1..Len(data) : RowResult(r).n_pairs > 0)
        => \A t \in 1..Len(hist) :
              hist[t].unshuffled => rand_group_pccs[t] = pcc_out.group_pcc

====
